---- MODULE Spec2Model ----
(***************************************************************************)
(* A model of bddap/bot: the capability registry and dispatcher (rpc.rs),  *)
(* the agent step bot_next (bot.rs), Working Memory (working_memory.rs)    *)
(* and the driver loop with its Run, Note and Done capabilities (main.rs). *)
(*                                                                         *)
(* bot_next is an async function: it is modelled between its await points  *)
(* (the model request, each tool call's dispatch, the commit), so that the *)
(* states in the middle of a step are states of the model.                 *)
(***************************************************************************)
EXTENDS Integers, Sequences, FiniteSets, TLC

VARIABLES
    history,      \* WorkingMemory.fresh
    callables,    \* Callables.callables: name -> WrappedCallable (or absent)
    halt,         \* the Arc<Mutex<Option<DoneArgs>>> cells, by slot
    pc,           \* where main / bot_next stands
    request,      \* bot_next's local `request` (Option); in flight at pc = "await"
    nreq,         \* number of requests sent to the Model Client
    response,     \* bot_next's local `response` of line 28: the choices received
    choice,       \* bot_next's local `response` of line 39: the first choice
    tool_calls,   \* bot_next's local `tool_calls`
    idx,          \* number of tool calls of `tool_calls` already looped over
    new_history,  \* bot_next's local `new_history`
    ret,          \* the last Callables::call: name, input, value returned (Option)
    log,          \* handler starts and commands executed during the step
    result,       \* what main returned (Option of Result)
    summary,      \* what main printed of the DoneArgs it read (Option)
    added,        \* the capabilities handed to Callables::add, in order
    config        \* the Config main loaded

vars == <<history, callables, halt, pc, request, nreq, response, choice, tool_calls,
          idx, new_history, ret, log, result, summary, added, config>>

-----------------------------------------------------------------------------
(* Bounds of the model. *)

\* A request is sent only while Working Memory holds fewer messages than
\* this, and a response carries no more tool calls than still fit.
MaxHistory == 6

\* Number of Callables::add calls of the registry specification.
MaxAdds == 2

-----------------------------------------------------------------------------
(* Option and Result. *)

NoneV == [some |-> FALSE]
Some(x) == [some |-> TRUE, v |-> x]

Ok(x) == [ok |-> TRUE, v |-> x]
Err(m) == [ok |-> FALSE, e |-> m]

SeqsUpTo(S, n) == UNION {[1..k -> S] : k \in 0..n}

-----------------------------------------------------------------------------
(* JSON values and JSON text.  A JSON value is a record; the three Input   *)
(* types of main.rs have disjoint required fields, so a value decodes into *)
(* at most one of them, which the field t names.                           *)

Null == [t |-> "null"]
Number(n) == [t |-> "number", n |-> n]
Object(of) == [t |-> "object", of |-> of]
Junk == Object("{}")                           \* {} : decodes into no Input type

RunArgs(command) == [t |-> "RunArgs", command |-> command]
NoteArgs == [t |-> "NoteArgs"]
DoneArgs(tldr, tests) == [t |-> "DoneArgs", tldr |-> tldr, test_commands |-> tests]
AddArgs(a, b) == [t |-> "AddArgs", a |-> a, b |-> b]

\* A string: either the text of a JSON value or text that is no JSON.
JsonText(v) == [json |-> TRUE, val |-> v]
NotJson == [json |-> FALSE]

\* from_str that takes text that is not JSON for null
from_str_null(s) == IF s.json THEN Ok(s.val) ELSE Ok(Null)

\* serde_json::from_str
from_str(s) == IF s.json THEN Ok(s.val) ELSE Err("expected value")

\* serde_json::to_string of a Value (it cannot fail on a Value)
to_string(v) == JsonText(v)

\* serde_json::from_value::<T>
from_value(T, v) == IF v.t = T THEN Ok(v) ELSE Err("invalid type or missing field")

\* The Output values of the capabilities, as Rust values.
Unit == [t |-> "()"]
I64(n) == [t |-> "i64", n |-> n]
RunOutput(prog) == [t |-> "RunOutput", of |-> prog]
NoteOutput == [t |-> "NoteOutput"]

\* serde_json::to_value of a capability's Output
to_value(out) ==
    CASE out.t = "()" -> Null
      [] out.t = "i64" -> Number(out.n)
      [] OTHER -> Object(out)

-----------------------------------------------------------------------------
(* The capabilities of main.rs. *)

MainSlot == 1
Slots == {1, 2}

Run == [type |-> "Run"]
Note == [type |-> "Note"]
Done(slot) == [type |-> "Done", slot |-> slot]

\* The "add" capability: fails on a blocked input value.
Add == [type |-> "Add"]
Blocked == 69

name(c) ==
    CASE c.type = "Run" -> "run"
      [] c.type = "Note" -> "note"
      [] c.type = "Done" -> "done"
      [] c.type = "Add" -> "add"

InputType(c) ==
    CASE c.type = "Run" -> "RunArgs"
      [] c.type = "Note" -> "NoteArgs"
      [] c.type = "Done" -> "DoneArgs"
      [] c.type = "Add" -> "AddArgs"

\* The VM: which programs can be spawned and which exit with success.
Spawns(prog) == prog \in {"true", "false"}
ExitSuccess(prog) == prog = "true"

\* A handler's outcome: its Result, and the halt cells and the log after it.
Outcome(res, h, l) == [res |-> res, halt |-> h, log |-> l]

\* Run::call
Run_call(inp, h, l) ==
    IF inp.command = <<>>
    THEN Outcome(Err("empty command"), h, l)
    ELSE LET first == Head(inp.command)
             l2 == Append(l, [ev |-> "exec", command |-> inp.command])
         IN  IF ~Spawns(first)
             THEN Outcome(Err("No such file or directory"), h, l2)
             ELSE IF ~ExitSuccess(first)
                  THEN Outcome(Err("RunOutput"), h, l2)
                  ELSE Outcome(Ok(RunOutput(first)), h, l2)

\* The loop over inp.test_commands that runs every test command and then
\* returns the first Err
RECURSIVE RunTests_all(_, _, _)
RunTests_all(tests, h, l) ==
    IF tests = <<>>
    THEN Outcome(Ok(Unit), h, l)
    ELSE LET o == Run_call(Head(tests), h, l)
             r == RunTests_all(Tail(tests), o.halt, o.log)
         IN  IF o.res.ok THEN r ELSE Outcome(o.res, r.halt, r.log)

\* The loop of Done::call over inp.test_commands: stops at the first Err.
RECURSIVE RunTests(_, _, _)
RunTests(tests, h, l) ==
    IF tests = <<>>
    THEN Outcome(Ok(Unit), h, l)
    ELSE LET o == Run_call(Head(tests), h, l)
         IN  IF o.res.ok THEN RunTests(Tail(tests), o.halt, o.log) ELSE o

\* Option::replace on the cell the capability holds
Replace(h, slot, inp) == [h EXCEPT ![slot] = Some(inp)]

\* Done::call that writes the cell before it runs the test commands
Done_call_eager(self, inp, h, l) ==
    LET o == RunTests(inp.test_commands, Replace(h, self.slot, inp), l)
    IN  IF o.res.ok THEN Outcome(Ok(Unit), o.halt, o.log) ELSE o

\* Done::call
Done_call(self, inp, h, l) ==
    LET o == RunTests(inp.test_commands, h, l)
    IN  IF o.res.ok
        THEN Outcome(Ok(Unit), Replace(o.halt, self.slot, inp), o.log)
        ELSE o

\* Note::call
Note_call(inp, h, l) == Outcome(Ok(NoteOutput), h, l)

\* the "add" capability's call
Add_call(inp, h, l) ==
    IF inp.a = Blocked \/ inp.b = Blocked
    THEN Outcome(Err("nice"), h, l)
    ELSE Outcome(Ok(I64(inp.a + inp.b)), h, l)

\* Callable::call of the capability c
Handler(c, inp, h, l) ==
    LET l2 == Append(l, [ev |-> "handler", name |-> name(c)])
    IN  CASE c.type = "Run" -> Run_call(inp, h, l2)
          [] c.type = "Note" -> Note_call(inp, h, l2)
          [] c.type = "Done" -> Done_call(c, inp, h, l2)
          [] c.type = "Add" -> Add_call(inp, h, l2)

-----------------------------------------------------------------------------
(* rpc.rs *)

Names == {"run", "note", "done", "add", "bogus"}

\* ---------------------------------------------------------------------
\* rpc.rs: schema_for and its two visitors
\* ---------------------------------------------------------------------

\* schemars::schema::Schema::Bool
BoolSchema(b) == [bool |-> b]

\* schemars::schema::SchemaObject: the parts the derived schemas use
SchemaObject(ty, fmt, obj, arr, ref) ==
    [instance_type |-> ty, format |-> fmt, object |-> obj, array |-> arr,
     reference |-> ref]

IsSchemaObject(s) == "instance_type" \in DOMAIN s

StringSchema == SchemaObject(Some("string"), NoneV, NoneV, NoneV, NoneV)
IntegerSchema == SchemaObject(Some("integer"), Some("int64"), NoneV, NoneV, NoneV)
ArraySchema(items) ==
    SchemaObject(Some("array"), NoneV, NoneV, Some([items |-> items]), NoneV)
StructSchema(properties) ==
    SchemaObject(Some("object"), NoneV,
                 Some([properties |-> properties, additional_properties |-> NoneV]),
                 NoneV, NoneV)
RefSchema(ref) == SchemaObject(NoneV, NoneV, NoneV, NoneV, Some(ref))

\* #[derive(JsonSchema)] of the Input types
RunArgsSchema ==
    StructSchema([explanation |-> StringSchema, command |-> ArraySchema(StringSchema)])
NoteArgsSchema ==
    StructSchema([note |-> StringSchema, what_is_not_working |-> StringSchema,
                  potential_explanations |-> StringSchema,
                  potential_resolutions |-> StringSchema, ideas |-> StringSchema,
                  note_to_future_self |-> StringSchema,
                  note_to_other_agents |-> StringSchema, ships_log |-> StringSchema,
                  prayer |-> StringSchema])
DoneArgsSchema ==
    StructSchema([long_summary |-> StringSchema, tldr |-> StringSchema,
                  verified_how |-> StringSchema,
                  test_commands |-> ArraySchema(RefSchema("#/definitions/RunArgs"))])
AddArgsSchema == StructSchema([a |-> IntegerSchema, b |-> IntegerSchema])

\* SchemaGenerator::into_root_schema_for::<T>, before the visitors run
RootSchema(schema, definitions) == [schema |-> schema, definitions |-> definitions]
Generated(T) ==
    CASE T = "RunArgs" -> RootSchema(RunArgsSchema, <<>>)
      [] T = "NoteArgs" -> RootSchema(NoteArgsSchema, <<>>)
      [] T = "DoneArgs" -> RootSchema(DoneArgsSchema, [RunArgs |-> RunArgsSchema])
      [] T = "AddArgs" -> RootSchema(AddArgsSchema, <<>>)

RECURSIVE visit_schema(_, _)
RECURSIVE visit_schema_object(_, _)
RECURSIVE Visitor_visit_schema(_, _)
RECURSIVE Visitor_visit_schema_object(_, _)

\* schemars::visit::visit_schema_object: visit every subschema
visit_schema_object(v, schema) ==
    [schema EXCEPT
        !.array = IF schema.array.some
                  THEN Some([items |-> Visitor_visit_schema(v, schema.array.v.items)])
                  ELSE NoneV,
        !.object =
            IF schema.object.some
            THEN LET obj == schema.object.v
                 IN  Some([properties |->
                               [k \in DOMAIN obj.properties |->
                                   Visitor_visit_schema(v, obj.properties[k])],
                           additional_properties |->
                               IF obj.additional_properties.some
                               THEN Some(Visitor_visit_schema(v, obj.additional_properties.v))
                               ELSE NoneV])
            ELSE NoneV]

\* schemars::visit::visit_schema
visit_schema(v, schema) ==
    IF IsSchemaObject(schema) THEN Visitor_visit_schema_object(v, schema) ELSE schema

\* schemars::visit::visit_root_schema: the root, then every definition
visit_root_schema(v, root) ==
    RootSchema(Visitor_visit_schema_object(v, root.schema),
               [d \in DOMAIN root.definitions |->
                   Visitor_visit_schema(v, root.definitions[d])])

\* obj.additional_properties = Some(Box::new(Schema::Bool(false)))
Close(schema) ==
    IF schema.object.some
    THEN [schema EXCEPT !.object =
             Some([schema.object.v EXCEPT !.additional_properties = Some(BoolSchema(FALSE))])]
    ELSE schema

RemoveFormat_visit_schema(schema) ==
    visit_schema("RemoveFormat",
                 IF IsSchemaObject(schema) THEN [schema EXCEPT !.format = NoneV] ELSE schema)

RemoveFormat_visit_schema_object(schema) ==
    visit_schema_object("RemoveFormat", [schema EXCEPT !.format = NoneV])

RemoveFormat_visit_root_schema(root) ==
    visit_root_schema("RemoveFormat", [root EXCEPT !.schema.format = NoneV])

AdditionalPropertiesFalse_visit_schema(schema) ==
    visit_schema("AdditionalPropertiesFalse",
                 IF IsSchemaObject(schema) THEN Close(schema) ELSE schema)

AdditionalPropertiesFalse_visit_schema_object(schema) ==
    visit_schema_object("AdditionalPropertiesFalse", Close(schema))

\* The visitor that closes the root only
AdditionalPropertiesFalse_root_only(root) == [root EXCEPT !.schema = Close(root.schema)]

AdditionalPropertiesFalse_visit_root_schema(root) ==
    visit_root_schema("AdditionalPropertiesFalse", [root EXCEPT !.schema = Close(root.schema)])

\* dyn Visitor: the visitor's own method
Visitor_visit_schema(v, schema) ==
    CASE v = "RemoveFormat" -> RemoveFormat_visit_schema(schema)
      [] v = "AdditionalPropertiesFalse" -> AdditionalPropertiesFalse_visit_schema(schema)

Visitor_visit_schema_object(v, schema) ==
    CASE v = "RemoveFormat" -> RemoveFormat_visit_schema_object(schema)
      [] v = "AdditionalPropertiesFalse" ->
             AdditionalPropertiesFalse_visit_schema_object(schema)

\* schema_for::<T>(): generate, then RemoveFormat, then AdditionalPropertiesFalse
schema_for(T) ==
    AdditionalPropertiesFalse_visit_root_schema(
        RemoveFormat_visit_root_schema(Generated(T)))

Absent == [present |-> FALSE]
WrappedCallable(c) ==
    [present |-> TRUE, call |-> c, input_schema |-> schema_for(InputType(c))]

\* rpc.rs call: decode the input, run the handler, encode the output
call(c, input, h, l) ==
    LET inp == from_value(InputType(c), input)
    IN  IF ~inp.ok
        THEN Outcome(Err(inp.e), h, l)
        ELSE LET o == Handler(c, inp.v, h, l)
             IN  IF ~o.res.ok
                 THEN o
                 ELSE Outcome(Ok(to_value(o.res.v)), o.halt, o.log)

\* Callables::add
Callables_add(cs, c) == [cs EXCEPT ![name(c)] = WrappedCallable(c)]

\* call_inner without its lookup failure: an unknown name runs Note
call_inner_default(cs, n, input, h, l) ==
    IF ~cs[n].present
    THEN call(Note, input, h, l)
    ELSE call(cs[n].call, input, h, l)

\* Callables::call_inner
call_inner(cs, n, input, h, l) ==
    IF ~cs[n].present
    THEN Outcome(Err("Callable not found"), h, l)
    ELSE call(cs[n].call, input, h, l)

\* The envelope with the error's message lost
ResultValue_opaque(r) == IF r.ok THEN [Ok |-> r.v] ELSE [Err |-> "error"]

\* serde_json::to_value of a Result<Value, String>
ResultValue(r) == IF r.ok THEN [Ok |-> r.v] ELSE [Err |-> r.e]

\* Callables::call: its outcome carries a JSON value, not a Result
Callables_call(cs, n, input, h, l) ==
    LET o == call_inner(cs, n, input, h, l)
    IN  [value |-> ResultValue(o.res), halt |-> o.halt, log |-> o.log]

\* A record of one Callables::call: what was asked, whether the name was
\* registered then, and the value returned.
CallRecord(cs, n, input, value) ==
    [name |-> n, input |-> input, registered |-> cs[n].present, value |-> value]

\* Callables::tools
tools(cs) ==
    {[name |-> n, parameters |-> cs[n].input_schema, strict |-> TRUE] :
        n \in {x \in Names : cs[x].present}}

-----------------------------------------------------------------------------
(* working_memory.rs, common.rs *)

\* WorkingMemory::messages
\* messages that hands out the seed messages only
messages_seed(h) == SubSeq(h, 1, 2)

\* WorkingMemory::messages
messages(h) == h

\* add_messages that keeps only the first new message
add_messages_first(h, new) == IF new = <<>> THEN h ELSE Append(h, Head(new))

\* add_messages that replaces the log by the new messages
add_messages_replace(h, new) == new

\* WorkingMemory::add_messages
add_messages(h, new) == h \o new

system(msg) == [role |-> "system", content |-> msg]
user(msg) == [role |-> "user", content |-> msg]

-----------------------------------------------------------------------------
(* bot.rs *)

\* to_request_message
\* to_request_message that leaves the tool calls out
to_request_message_bare(m) ==
    [role |-> "assistant", content |-> m.content, tool_calls |-> NoneV]

to_request_message(m) ==
    [role |-> "assistant", content |-> m.content, tool_calls |-> m.tool_calls]

ToolMessage(output, id) == [role |-> "tool", content |-> output, tool_call_id |-> id]

-----------------------------------------------------------------------------
(* The Model Client: the responses it may give. *)

\* What a tool call of a response may ask for: function name and arguments.
Fn(n, arguments) == [name |-> n, arguments |-> arguments]

ToolCallKinds ==
    { Fn("run", JsonText(RunArgs(<<"true">>))),
      Fn("run", JsonText(RunArgs(<<"false">>))),
      Fn("run", JsonText(RunArgs(<<>>))),
      Fn("run", NotJson),
      Fn("note", JsonText(NoteArgs)),
      Fn("done", JsonText(Junk)),
      Fn("bogus", JsonText(NoteArgs)),
      Fn("done", JsonText(DoneArgs("A", <<>>))),
      Fn("done", JsonText(DoneArgs("B", <<RunArgs(<<"true">>)>>))),
      Fn("done", JsonText(DoneArgs("B", <<RunArgs(<<"false">>), RunArgs(<<"true">>)>>))) }

\* The tool calls of a response: ids unique within the response, given in
\* rising or in falling order.
WithIds(fs, rev) ==
    [i \in 1..Len(fs) |->
        [id |-> IF rev THEN Len(fs) + 1 - i ELSE i, function |-> fs[i]]]

Choice(tcs) == [message |-> [content |-> NoneV, tool_calls |-> tcs]]

\* What a response may carry after its first choice.
OtherChoices ==
    { Choice(NoneV),
      Choice(Some(WithIds(<<Fn("done", JsonText(DoneArgs("C", <<>>)))>>, FALSE))) }

\* The shapes of a response: no choice at all, one choice, or a first choice
\* followed by another one.
Shapes == {<<>>} \cup {<<d>> : d \in OtherChoices}

\* The tool calls that still fit into the bounded Working Memory.
Budget == MaxHistory - Len(history) - 1

-----------------------------------------------------------------------------
(* main.rs and bot_next, step by step *)

SYSTEM_PROMPT == "SYSTEM_PROMPT"
directive == "directive"

\* config.rs: Config, as far as bot_next reads it
Configs == {[parallel_tool_calls |-> p] : p \in {NoneV, Some(TRUE), Some(FALSE)}}

Init ==
    /\ config \in Configs
    /\ history = <<>>
    /\ callables = [n \in Names |-> Absent]
    /\ halt = [s \in Slots |-> NoneV]
    /\ pc = "main"
    /\ request = NoneV
    /\ nreq = 0
    /\ response = NoneV
    /\ choice = NoneV
    /\ tool_calls = <<>>
    /\ idx = 0
    /\ new_history = <<>>
    /\ ret = NoneV
    /\ log = <<>>
    /\ result = NoneV
    /\ summary = NoneV
    /\ added = <<>>

\* main.rs 53-61: seed Working Memory, register Run, Note and Done
Main_setup ==
    /\ pc = "main"
    /\ added = <<>>
    /\ history' = add_messages(history, <<system(SYSTEM_PROMPT), user(directive)>>)
    /\ callables' = Callables_add(Callables_add(Callables_add(callables, Run), Note),
                                  Done(MainSlot))
    /\ added' = <<Run, Note, Done(MainSlot)>>
    /\ pc' = "loop"
    /\ UNCHANGED <<halt, request, nreq, response, choice, tool_calls, idx,
                   new_history, ret, log, result, summary,
                   config>>

\* bot.rs 19-29: build the request from the snapshot and send it
SendRequest ==
    /\ pc = "loop"
    /\ Len(history) < MaxHistory
    /\ request' = Some([messages |-> messages(history), tools |-> tools(callables),
                         parallel_tool_calls |-> config.parallel_tool_calls])
    /\ nreq' = nreq + 1
    /\ pc' = "await"
    /\ UNCHANGED <<history, callables, halt, response, choice, tool_calls, idx,
                   new_history, ret, log, result, summary, added,
                   config>>

\* bot_next returns Err(e) and main.rs 64 hands it on: main returns Err(e)
Fail(e) ==
    /\ pc' = "exit"
    /\ result' = Some(Err(e))

\* A failed request that is tried again by the next turn of the loop
TransportError_retry ==
    /\ pc = "await"
    /\ pc' = "loop"
    /\ UNCHANGED <<history, callables, halt, request, nreq, response, choice,
                   tool_calls, idx, new_history, ret, log, result, summary, added,
                   config>>

\* bot.rs 29: the request fails
TransportError ==
    /\ pc = "await"
    /\ Fail("transport error")
    /\ UNCHANGED <<history, callables, halt, request, nreq, response, choice,
                   tool_calls, idx, new_history, ret, log, summary, added,
                   config>>

\* bot_next using the last choice of the response
ReceiveResponse_last(choices) ==
    /\ pc = "await"
    /\ response' = Some([choices |-> choices])
    /\ IF choices = <<>>
       THEN /\ Fail("No choices in response")
            /\ UNCHANGED <<choice, tool_calls, new_history>>
       ELSE LET first == choices[Len(choices)]
            IN  /\ choice' = Some(first)
                /\ IF ~first.message.tool_calls.some
                   THEN /\ Fail("No tool calls in response")
                        /\ UNCHANGED <<tool_calls, new_history>>
                   ELSE /\ tool_calls' = first.message.tool_calls.v
                        /\ new_history' = <<to_request_message(first.message)>>
                        /\ pc' = "tools"
                        /\ UNCHANGED result
    /\ UNCHANGED <<history, callables, halt, request, nreq, idx, ret, log,
                   summary, added,
                   config>>

\* bot_next taking an empty tool_calls list for a missing one
ReceiveResponse_strict(choices) ==
    /\ pc = "await"
    /\ response' = Some([choices |-> choices])
    /\ IF choices = <<>>
       THEN /\ Fail("No choices in response")
            /\ UNCHANGED <<choice, tool_calls, new_history>>
       ELSE LET first == Head(choices)
            IN  /\ choice' = Some(first)
                /\ IF first.message.tool_calls \in {NoneV, Some(<<>>)}
                   THEN /\ Fail("No tool calls in response")
                        /\ UNCHANGED <<tool_calls, new_history>>
                   ELSE /\ tool_calls' = first.message.tool_calls.v
                        /\ new_history' = <<to_request_message(first.message)>>
                        /\ pc' = "tools"
                        /\ UNCHANGED result
    /\ UNCHANGED <<history, callables, halt, request, nreq, idx, ret, log,
                   summary, added,
                   config>>

\* bot_next taking a missing choice or tool_calls field for an empty list
ReceiveResponse_lenient(choices) ==
    /\ pc = "await"
    /\ response' = Some([choices |-> choices])
    /\ LET first == IF choices = <<>> THEN Choice(NoneV) ELSE Head(choices)
           tcs == IF first.message.tool_calls.some THEN first.message.tool_calls.v ELSE <<>>
       IN  /\ choice' = Some(first)
           /\ tool_calls' = tcs
           /\ new_history' = <<to_request_message(first.message)>>
           /\ pc' = "tools"
    /\ UNCHANGED <<history, callables, halt, request, nreq, idx, ret, log,
                   result, summary, added,
                   config>>

\* bot.rs 29-57: a response arrives; pick the first choice and its tool calls
ReceiveResponse(choices) ==
    /\ pc = "await"
    /\ response' = Some([choices |-> choices])
    /\ IF choices = <<>>
       THEN /\ Fail("No choices in response")
            /\ UNCHANGED <<choice, tool_calls, new_history>>
       ELSE LET first == Head(choices)
            IN  /\ choice' = Some(first)
                /\ IF ~first.message.tool_calls.some
                   THEN /\ Fail("No tool calls in response")
                        /\ UNCHANGED <<tool_calls, new_history>>
                   ELSE /\ tool_calls' = first.message.tool_calls.v
                        /\ new_history' = <<to_request_message(first.message)>>
                        /\ pc' = "tools"
                        /\ UNCHANGED result
    /\ UNCHANGED <<history, callables, halt, request, nreq, idx, ret, log,
                   summary, added,
                   config>>

\* The Model Client answers with no choice at all
NoChoices == ReceiveResponse(<<>>)

\* The Model Client answers with a first choice that has no tool_calls field
NoToolCalls ==
    /\ pc = "await"
    /\ \E rest \in Shapes : ReceiveResponse(<<Choice(NoneV)>> \o rest)

\* The Model Client answers with a first choice carrying tool calls
WithToolCalls ==
    /\ pc = "await"
    /\ \E k \in 0..Budget :
          \E fs \in [1..k -> ToolCallKinds] :
              \E rev \in {r \in BOOLEAN : k > 1 \/ ~r} :
                  \E rest \in Shapes :
                      ReceiveResponse(<<Choice(Some(WithIds(fs, rev)))>> \o rest)

\* The loop over tool_calls taking them from the last to the first
DispatchToolCall_reverse ==
    /\ pc = "tools"
    /\ idx < Len(tool_calls)
    /\ LET tool_call == tool_calls[Len(tool_calls) - idx]
           input == from_str(tool_call.function.arguments)
       IN  IF ~input.ok
           THEN /\ Fail(input.e)
                /\ UNCHANGED <<halt, idx, new_history, ret, log>>
           ELSE LET o == Callables_call(callables, tool_call.function.name,
                                        input.v, halt, log)
                    output == to_string(o.value)
                IN  /\ new_history' = Append(new_history, ToolMessage(output, tool_call.id))
                    /\ halt' = o.halt
                    /\ log' = o.log
                    /\ ret' = Some(CallRecord(callables, tool_call.function.name,
                                               input.v, o.value))
                    /\ idx' = idx + 1
                    /\ UNCHANGED <<pc, result>>
    /\ UNCHANGED <<history, callables, request, nreq, response, choice,
                   tool_calls, summary, added, config>>

\* bot.rs 59-69: one turn of the loop over tool_calls
DispatchToolCall ==
    /\ pc = "tools"
    /\ idx < Len(tool_calls)
    /\ LET tool_call == tool_calls[idx + 1]
           input == from_str(tool_call.function.arguments)
       IN  IF ~input.ok
           THEN /\ Fail(input.e)
                /\ UNCHANGED <<halt, idx, new_history, ret, log>>
           ELSE LET o == Callables_call(callables, tool_call.function.name,
                                        input.v, halt, log)
                    output == to_string(o.value)
                IN  /\ new_history' = Append(new_history, ToolMessage(output, tool_call.id))
                    /\ halt' = o.halt
                    /\ log' = o.log
                    /\ ret' = Some(CallRecord(callables, tool_call.function.name,
                                               input.v, o.value))
                    /\ idx' = idx + 1
                    /\ UNCHANGED <<pc, result>>
    /\ UNCHANGED <<history, callables, request, nreq, response, choice,
                   tool_calls, summary, added,
                   config>>

\* bot.rs 71-73: commit the batch and return Ok(())
Commit ==
    /\ pc = "tools"
    /\ idx = Len(tool_calls)
    /\ history' = add_messages(history, new_history)
    /\ pc' = "check"
    /\ UNCHANGED <<callables, halt, request, nreq, response, choice, tool_calls,
                   idx, new_history, ret, log, result, summary, added,
                   config>>

\* main.rs 65-77: the cell is populated: break, print the summary, return Ok(())
Break ==
    /\ pc = "check"
    /\ halt[MainSlot].some
    /\ summary' = Some(halt[MainSlot].v.tldr)
    /\ result' = Some(Ok(Null))
    /\ pc' = "exit"
    /\ UNCHANGED <<history, callables, halt, request, nreq, response, choice,
                   tool_calls, idx, new_history, ret, log, added,
                   config>>

\* A loop that gives up after its second step
Continue_bounded ==
    /\ pc = "check"
    /\ ~halt[MainSlot].some
    /\ nreq < 2
    /\ pc' = "loop"
    /\ request' = NoneV
    /\ response' = NoneV
    /\ choice' = NoneV
    /\ tool_calls' = <<>>
    /\ idx' = 0
    /\ new_history' = <<>>
    /\ ret' = NoneV
    /\ log' = <<>>
    /\ UNCHANGED <<history, callables, halt, nreq, result, summary, added,
                   config>>

\* main.rs 65-71: the cell is empty: next turn of the loop (the locals of the
\* step that returned are gone)
Continue ==
    /\ pc = "check"
    /\ ~halt[MainSlot].some
    /\ pc' = "loop"
    /\ request' = NoneV
    /\ response' = NoneV
    /\ choice' = NoneV
    /\ tool_calls' = <<>>
    /\ idx' = 0
    /\ new_history' = <<>>
    /\ ret' = NoneV
    /\ log' = <<>>
    /\ UNCHANGED <<history, callables, halt, nreq, result, summary, added,
                   config>>

Next ==
    \/ Main_setup
    \/ SendRequest
    \/ TransportError
    \/ NoChoices
    \/ NoToolCalls
    \/ WithToolCalls
    \/ DispatchToolCall
    \/ Commit
    \/ Break
    \/ Continue

Spec == Init /\ [][Next]_vars

-----------------------------------------------------------------------------
(* The registry by itself: any capabilities added in any order, any name   *)
(* called with any input.                                                  *)

Capabilities == {Run, Note, Add} \cup {Done(s) : s \in Slots}

Inputs ==
    {a.arguments.val : a \in {k \in ToolCallKinds : k.arguments.json}}
        \cup {AddArgs(Blocked, 1), AddArgs(1, Blocked), AddArgs(1, 2)}

\* callables.add(c)
RegAdd(c) ==
    /\ pc = "main"
    /\ Len(added) < MaxAdds
    /\ callables' = Callables_add(callables, c)
    /\ added' = Append(added, c)
    /\ UNCHANGED <<history, halt, pc, request, nreq, response, choice, tool_calls,
                   idx, new_history, ret, log, result, summary,
                   config>>

\* callables.call(n, input).await
RegCall(n, input) ==
    /\ pc = "main"
    /\ LET o == Callables_call(callables, n, input, halt, <<>>)
       IN  /\ ret' = Some(CallRecord(callables, n, input, o.value))
           /\ halt' = o.halt
           /\ log' = o.log
    /\ UNCHANGED <<history, callables, pc, request, nreq, response, choice,
                   tool_calls, idx, new_history, result, summary, added,
                   config>>

NextRegistry ==
    \/ \E c \in Capabilities : RegAdd(c)
    \/ \E n \in Names, input \in Inputs : RegCall(n, input)

\* Callables on its own: no Config takes part
InitRegistry == Init /\ config.parallel_tool_calls = NoneV

SpecRegistry == InitRegistry /\ [][NextRegistry]_vars

-----------------------------------------------------------------------------
(* Claims *)

IsOk(value) == DOMAIN value = {"Ok"}
IsErr(value) == DOMAIN value = {"Err"}

HandlerStarted == \E i \in 1..Len(log) : log[i].ev = "handler"

\* The handler of capability type T fails on the decoded input inp.
RunFails(inp) == inp.command = <<>> \/ ~Spawns(Head(inp.command))
                                    \/ ~ExitSuccess(Head(inp.command))
HandlerFails(T, inp) ==
    \/ T = "RunArgs" /\ RunFails(inp)
    \/ T = "DoneArgs" /\ \E i \in 1..Len(inp.test_commands) : RunFails(inp.test_commands[i])
    \/ T = "AddArgs" /\ (inp.a = Blocked \/ inp.b = Blocked)

\* C1: Callables::call always returns a JSON value that is {"Ok": v} or
\* {"Err": m}, whatever the name and the input: an unregistered name gives
\* {"Err": ...} and starts no handler, an input that does not decode into the
\* capability's Input type gives {"Err": ...} (and starts no handler), and a
\* failing handler gives {"Err": ...}.
C1_CallReturnsOkOrErr ==
    ret.some =>
        LET r == ret.v
            T == InputType(callables[r.name].call)
        IN  /\ IsOk(r.value) \/ IsErr(r.value)
            /\ ~r.registered => r.value = [Err |-> "Callable not found"] /\ ~HandlerStarted
            /\ r.registered /\ r.input.t # T => IsErr(r.value) /\ ~HandlerStarted
            /\ r.registered /\ r.input.t = T /\ HandlerFails(T, r.input) =>
                   IsErr(r.value) /\ HandlerStarted

C1_Witness ==
    /\ ret.some
    /\ ~ret.v.registered
    /\ ret.v.name = "run"
    /\ ret.v.value = [Err |-> "Callable not found"]
    /\ callables["done"].present

\* The snapshot the current step's request was built from.
Prior == request.v.messages

\* The current step got a response whose used choice carries tool calls.
HasToolCalls == choice.some /\ choice.v.message.tool_calls.some

\* bot_next has returned (Ok at "check"; at "exit" main has returned too).
StepOver == pc \in {"check", "exit"}

StepFailed == pc = "exit" /\ result.some /\ ~result.v.ok

\* Working Memory is the snapshot followed by the whole batch of the step:
\* the assistant message, then one tool message per tool call, ids in order.
WholeBatchCommitted ==
    /\ Len(history) = Len(Prior) + 1 + Len(tool_calls)
    /\ SubSeq(history, 1, Len(Prior)) = Prior
    /\ history[Len(Prior) + 1] = to_request_message(choice.v.message)
    /\ \A i \in 1..Len(tool_calls) :
           /\ history[Len(Prior) + 1 + i].role = "tool"
           /\ history[Len(Prior) + 1 + i].tool_call_id = tool_calls[i].id

\* The arguments of a tool call violate the input contract of the capability
\* it names: they are no JSON, or JSON that does not decode into its Input.
Violates(tc) ==
    /\ callables[tc.function.name].present
    /\ \/ ~tc.function.arguments.json
       \/ tc.function.arguments.val.t # InputType(callables[tc.function.name].call)

\* C2 (as claimed): in a step whose response carries tool calls, a tool call
\* whose arguments violate the capability's input contract gets a {"Err": ...}
\* tool result, every tool call after it is still dispatched and gets its own
\* tool result, and the step does not abort.
C2_Claim ==
    (StepOver /\ HasToolCalls /\ \E i \in 1..Len(tool_calls) : Violates(tool_calls[i])) =>
        /\ ~StepFailed
        /\ idx = Len(tool_calls)
        /\ WholeBatchCommitted
        /\ \A i \in 1..Len(tool_calls) :
               Violates(tool_calls[i]) => IsErr(history[Len(Prior) + 1 + i].content.val)

\* C3 (as claimed): for every step and every response, each tool call of the
\* response yields exactly one tool message in Working Memory with its id,
\* after the step's one assistant message and in the order of the tool calls.
C3_Claim == (StepOver /\ HasToolCalls) => WholeBatchCommitted

\* C4: the commit is atomic.  While and after a step, Working Memory is
\* either still the snapshot the step started from (always so when the step
\* failed) or the snapshot followed by the whole batch (only once the step
\* has returned Ok); no state holds a part of a batch.
C4_AtomicCommit ==
    request.some =>
        /\ StepFailed \/ ~StepOver => history = Prior
        /\ StepOver /\ ~StepFailed =>
               /\ WholeBatchCommitted
               /\ idx = Len(tool_calls)
               /\ new_history = SubSeq(history, Len(Prior) + 1, Len(history))

\* A step failed after part of its batch had been built.
C4_Witness ==
    /\ StepFailed
    /\ Len(new_history) = 2
    /\ Len(tool_calls) = 3
    /\ history = Prior

IsPrefix(a, b) == Len(a) <= Len(b) /\ SubSeq(b, 1, Len(a)) = a

\* C5: Working Memory is append-only: every step of the program leaves the
\* old message sequence as a prefix of the new one, and taking the snapshot
\* (messages(), when the request is built) leaves it unchanged.
C5_AppendOnly ==
    [][/\ IsPrefix(history, history')
       /\ pc = "loop" /\ pc' = "await" => history' = history /\ request'.v.messages = history]_vars

\* Working Memory has grown by the batches of two steps.
C5_Witness ==
    /\ nreq = 2
    /\ pc = "check"
    /\ Len(history) = 6
    /\ Len(tool_calls) = 1

\* The i-th tool call of the step was a call of "done" that returned Ok.
DoneSucceededAt(i) ==
    /\ tool_calls[i].function.name = "done"
    /\ new_history[i + 1].content = JsonText([Ok |-> Null])

DoneSucceeded == HasToolCalls /\ \E i \in 1..idx : DoneSucceededAt(i)

DoneCalled == HasToolCalls /\ \E i \in 1..Len(tool_calls) : tool_calls[i].function.name = "done"

C7_Claim == [][halt[MainSlot].some => halt'[MainSlot] = halt[MainSlot]]_vars

\* C8 (as claimed): registering a capability under a name that is already
\* present does not replace the registration stored under that name.
C8_Claim == [][\A n \in Names : callables[n].present => callables'[n] = callables[n]]_vars

NumAssistant(h) == Cardinality({i \in 1..Len(h) : h[i].role = "assistant"})

\* C9: a failed request is fatal.  bot_next returns the error: nothing was
\* dispatched, Working Memory is the snapshot, the request is not sent again
\* (each step sends exactly one request), and main has returned that error
\* and takes no further step.
C9_TransportFatal ==
    /\ nreq = NumAssistant(history) + (IF pc \in {"await", "tools"} \/ StepFailed THEN 1 ELSE 0)
    /\ pc = "exit" /\ ~response.some =>
           /\ result = Some(Err("transport error"))
           /\ history = Prior
           /\ tool_calls = <<>> /\ idx = 0 /\ new_history = <<>>
           /\ ~ret.some /\ log = <<>>
           /\ ~summary.some
           /\ ~ENABLED Next

\* The request of the second step failed.
C9_Witness ==
    /\ pc = "exit"
    /\ ~response.some
    /\ nreq = 2
    /\ Len(history) > 2

NoChoice == response.v.choices = <<>>
NoToolCallsField == ~Head(response.v.choices).message.tool_calls.some

\* C10: a response with zero choices, or whose first choice has no
\* tool_calls field, aborts the step: bot_next returns an error, no tool call
\* is dispatched, nothing (not even the assistant message) is appended to
\* Working Memory, and main returns the error without a further step.
C10_ProtocolErrorsAbort ==
    (response.some /\ (NoChoice \/ NoToolCallsField)) =>
        /\ pc = "exit"
        /\ result = Some(Err(IF NoChoice THEN "No choices in response"
                                         ELSE "No tool calls in response"))
        /\ history = Prior
        /\ tool_calls = <<>> /\ idx = 0 /\ new_history = <<>>
        /\ ~ret.some /\ log = <<>>
        /\ ~summary.some
        /\ ~ENABLED Next

\* The second step's response has a first choice without tool_calls, followed
\* by a choice that carries a tool call.
C10_Witness ==
    /\ response.some
    /\ Len(response.v.choices) = 2
    /\ NoToolCallsField
    /\ response.v.choices[2].message.tool_calls.some
    /\ nreq = 2
    /\ StepFailed

\* What a call with the registered name n and the decodable input inp is to
\* return: the handler's output as JSON, or the handler's own message.
Expected(n, inp) ==
    CASE n = "add" /\ inp = AddArgs(Blocked, 1) -> [Err |-> "nice"]
      [] n = "add" /\ inp = AddArgs(1, Blocked) -> [Err |-> "nice"]
      [] n = "add" /\ inp = AddArgs(1, 2) -> [Ok |-> Number(3)]
      [] n = "run" /\ inp = RunArgs(<<>>) -> [Err |-> "empty command"]
      [] n = "run" /\ inp = RunArgs(<<"false">>) -> [Err |-> "RunOutput"]
      [] n = "run" /\ inp = RunArgs(<<"true">>) -> [Ok |-> Object(RunOutput("true"))]
      [] n = "note" -> [Ok |-> Object(NoteOutput)]
      [] n = "done" /\ HandlerFails("DoneArgs", inp) -> [Err |-> "RunOutput"]
      [] n = "done" /\ ~HandlerFails("DoneArgs", inp) -> [Ok |-> Null]

\* C11: for a registered capability and an input that decodes into its Input
\* type, Callables::call returns {"Ok": v} with v the JSON encoding of the
\* handler's output when the handler succeeds, and {"Err": m} with m the
\* handler's own message when it fails ("add" blocked on 69: {a:69,b:1}
\* gives {"Err":"nice"}, {a:1,b:2} gives {"Ok":3}).
C11_OkOrHandlersError ==
    ret.some =>
        LET r == ret.v
            T == InputType(callables[r.name].call)
        IN  r.registered /\ r.input.t = T =>
                /\ HandlerStarted
                /\ IsOk(r.value) <=> ~HandlerFails(T, r.input)
                /\ r.value = Expected(r.name, r.input)

\* "add" was called with {a:69,b:1} and answered {"Err":"nice"}.
C11_Witness ==
    /\ ret.some
    /\ ret.v.registered
    /\ ret.v.name = "add"
    /\ ret.v.input = AddArgs(Blocked, 1)
    /\ ret.v.value = [Err |-> "nice"]

\* Every SchemaObject node of a schema: the node itself, array items,
\* properties and additionalProperties.
RECURSIVE Nodes(_)
Nodes(schema) ==
    IF ~IsSchemaObject(schema)
    THEN {}
    ELSE {schema}
           \cup (IF schema.array.some THEN Nodes(schema.array.v.items) ELSE {})
           \cup (IF schema.object.some
                 THEN LET obj == schema.object.v
                      IN  UNION {Nodes(obj.properties[k]) : k \in DOMAIN obj.properties}
                            \cup (IF obj.additional_properties.some
                                  THEN Nodes(obj.additional_properties.v)
                                  ELSE {})
                 ELSE {})

\* ... of a root schema: the root's nodes and those of every definition
RootNodes(root) ==
    Nodes(root.schema) \cup UNION {Nodes(root.definitions[d]) : d \in DOMAIN root.definitions}

ObjectTyped(node) == node.instance_type = Some("object")

\* C12: the input schema of every registered capability has no "format" at
\* any node (root, nested properties, array items, definitions), and every
\* object-typed node declares additionalProperties = false.
C12_SchemaNormalised ==
    \A n \in Names :
        callables[n].present =>
            \A node \in RootNodes(callables[n].input_schema) :
                /\ ~node.format.some
                /\ ObjectTyped(node) =>
                       /\ node.object.some
                       /\ node.object.v.additional_properties = Some(BoolSchema(FALSE))

\* "add" (whose generated schema carries formats) and "done" (whose
\* generated schema has an object-typed definition) are both registered.
C12_Witness ==
    /\ callables["add"].present
    /\ callables["done"].present
    /\ \E node \in RootNodes(Generated("AddArgs")) : node.format.some
    /\ \E node \in RootNodes(Generated("DoneArgs")) :
           /\ ObjectTyped(node)
           /\ node \notin Nodes(Generated("DoneArgs").schema)
    /\ tools(callables) # {}

\* C13: steps are strictly sequential: a request is sent only when every
\* earlier request's step has committed (at most one is in flight), and it
\* carries exactly the full Working Memory, which is the snapshot of the step
\* before followed by that step's committed batch.
C13_StepsSequential ==
    [][/\ nreq' # nreq =>
              /\ pc = "loop"
              /\ nreq' = nreq + 1
              /\ nreq = NumAssistant(history)
              /\ request'.some
              /\ request'.v.messages = history
              /\ history' = history
       /\ pc = "check" /\ pc' = "loop" =>
              /\ history = request.v.messages \o new_history
              /\ history' = history
       /\ pc' = "await" => nreq' = NumAssistant(history') + 1]_vars

\* The request of the second step is in flight, built after the first commit.
C13_Witness ==
    /\ pc = "await"
    /\ nreq = 2
    /\ Len(history) > 2
    /\ request.v.messages = history

\* The used choice of the current step carries a tool_calls list that is empty.
EmptyToolCalls ==
    /\ pc \in {"tools", "check", "exit"}
    /\ HasToolCalls
    /\ choice.v.message.tool_calls.v = <<>>

\* C14: a first choice whose tool_calls list is present but empty makes the
\* step succeed: nothing is dispatched, exactly one message (the assistant
\* message) is appended, bot_next returns Ok and the Driver goes on to the
\* next step.
C14_EmptyToolCallsSucceed ==
    EmptyToolCalls =>
        /\ pc \in {"tools", "check"}
        /\ ~result.some
        /\ ~ret.some /\ log = <<>> /\ idx = 0
        /\ ~halt[MainSlot].some
        /\ new_history = <<to_request_message(choice.v.message)>>
        /\ pc = "tools" => history = Prior /\ ENABLED Commit /\ ~ENABLED DispatchToolCall
        /\ pc = "check" => history = Append(Prior, new_history[1]) /\ ENABLED Continue

\* A step with an empty tool_calls list has committed its one message.
C14_Witness ==
    /\ EmptyToolCalls
    /\ pc = "check"
    /\ Len(history) = Len(Prior) + 1
    /\ history[Len(history)].role = "assistant"

\* The handlers started so far in the current step.
HandlerEvents == {i \in 1..Len(log) : log[i].ev = "handler"}

\* C15: of a response with more than one choice only the first is used: its
\* message and its tool calls make the batch; the other choices are neither
\* dispatched nor recorded, and a first choice without tool calls fails the
\* step even when a later choice has some.
C15_FirstChoiceOnly ==
    response.some /\ Len(response.v.choices) > 1 =>
        LET first == response.v.choices[1].message
            other == response.v.choices[2].message
        IN  /\ choice = Some(response.v.choices[1])
            /\ ~first.tool_calls.some =>
                   /\ StepFailed
                   /\ result.v.e = "No tool calls in response"
                   /\ history = Prior
                   /\ log = <<>> /\ ~ret.some /\ ~halt[MainSlot].some
            /\ first.tool_calls.some =>
                   /\ tool_calls = first.tool_calls.v
                   /\ Len(new_history) = 1 + idx
                   /\ new_history[1] = to_request_message(first)
                   /\ Cardinality(HandlerEvents) <= idx
                   /\ pc = "check" =>
                          /\ history = Prior \o new_history
                          /\ Len(history) = Len(Prior) + 1 + Len(first.tool_calls.v)
            /\ halt[MainSlot].some => halt[MainSlot].v.tldr # "C"
            /\ \A i \in 1..Len(history) :
                   history[i].role = "assistant" =>
                       history[i].tool_calls # other.tool_calls

\* A response whose second choice calls "done" has been used up to the commit.
C15_Witness ==
    /\ response.some
    /\ Len(response.v.choices) = 2
    /\ response.v.choices[2].message.tool_calls.some
    /\ pc = "check"
    /\ Len(tool_calls) > 0
    /\ Len(history) = Len(Prior) + 1 + Len(tool_calls)

\* C16: populating the TerminationSignal does not stop the step: the
\* remaining tool calls of the response are still dispatched, the full batch
\* is committed, and the Driver reads the signal only after the step returned.
C16_Claim ==
    halt[MainSlot].some =>
        /\ pc = "tools" => ~ENABLED Break /\ ~summary.some
        /\ StepOver => idx = Len(tool_calls) /\ WholeBatchCommitted
        /\ summary.some => pc = "exit" /\ result = Some(Ok(Null))

\* The tool call the loop of the current step stands at has arguments that
\* are not JSON.
NextNotJson ==
    /\ HasToolCalls
    /\ idx < Len(tool_calls)
    /\ ~tool_calls[idx + 1].function.arguments.json

\* C17: a tool call whose argument string is not JSON aborts the whole step
\* with an error instead of producing an {"Err": ...} message: the tool calls
\* before it have run (their effects, a write of the signal included, stay),
\* it and the later ones are never dispatched, nothing of the batch is
\* committed, and the Driver ends with the error.
C17_NonJsonAborts ==
    /\ HasToolCalls /\ pc \in {"tools", "check", "exit"} =>
           /\ \A i \in 1..idx : tool_calls[i].function.arguments.json
           /\ Len(new_history) = 1 + idx
    /\ NextNotJson /\ pc = "tools" => ENABLED DispatchToolCall /\ ~ENABLED Commit
    /\ NextNotJson /\ pc # "tools" =>
           /\ StepFailed
           /\ result.v.e = "expected value"
           /\ history = Prior
           /\ ~summary.some
           /\ ~ENABLED Next
    /\ StepFailed /\ HasToolCalls => NextNotJson

\* "done" populated the signal, the next tool call was not JSON, a third one
\* was never dispatched, and main has returned the error.
C17_Witness ==
    /\ StepFailed
    /\ NextNotJson
    /\ idx >= 1
    /\ idx + 1 < Len(tool_calls)
    /\ halt[MainSlot].some
    /\ history = Prior

\* What running one command leaves in the log.
ExecEvents(inp) ==
    IF inp.command = <<>> THEN <<>> ELSE <<[ev |-> "exec", command |-> inp.command]>>

\* What the test commands of a "done" call leave in the log: they run in
\* order, up to and including the first one that fails.
RECURSIVE TestEvents(_)
TestEvents(tests) ==
    IF tests = <<>>
    THEN <<>>
    ELSE ExecEvents(Head(tests))
            \o (IF RunFails(Head(tests)) THEN <<>> ELSE TestEvents(Tail(tests)))

\* What one dispatched tool call leaves in the log, from start to completion.
CallEvents(tc) ==
    LET n == tc.function.name
        a == tc.function.arguments.val
    IN  IF ~callables[n].present \/ a.t # InputType(callables[n].call)
        THEN <<>>
        ELSE <<[ev |-> "handler", name |-> n]>>
                \o (CASE a.t = "RunArgs" -> ExecEvents(a)
                      [] a.t = "DoneArgs" -> TestEvents(a.test_commands)
                      [] OTHER -> <<>>)

\* ... and the first i tool calls of the response, one after another.
RECURSIVE EventsUpTo(_)
EventsUpTo(i) == IF i = 0 THEN <<>> ELSE EventsUpTo(i - 1) \o CallEvents(tool_calls[i])

\* C18: the tool calls of one response are dispatched one after another in
\* response order: what the handlers did is the concatenation, in that order,
\* of what each dispatched call does from start to completion, and the tool
\* messages follow in the same order, whatever parallel_tool_calls says.
C18_SequentialDispatch ==
    HasToolCalls /\ pc \in {"tools", "check", "exit"} =>
        /\ idx <= Len(tool_calls)
        /\ log = EventsUpTo(idx)
        /\ \A i \in 1..idx :
               /\ new_history[1 + i].role = "tool"
               /\ new_history[1 + i].tool_call_id = tool_calls[i].id
        /\ idx > 0 => ret.some /\ ret.v.name = tool_calls[idx].function.name

\* With parallel_tool_calls = true, two handlers have run, the second of
\* them for the tool call with the smaller id.
C18_Witness ==
    /\ request.some
    /\ request.v.parallel_tool_calls = Some(TRUE)
    /\ pc = "tools"
    /\ idx = 2
    /\ tool_calls[1].id > tool_calls[2].id
    /\ tool_calls[1].function.name # tool_calls[2].function.name
    /\ Cardinality(HandlerEvents) = 2

\* A "done" call whose arguments decode and one of whose test commands fails.
FailingDone(tc) ==
    /\ tc.function.name = "done"
    /\ tc.function.arguments.json
    /\ tc.function.arguments.val.t = "DoneArgs"
    /\ HandlerFails("DoneArgs", tc.function.arguments.val)

\* Such a call has been dispatched in the current step.
DoneFailed == HasToolCalls /\ \E i \in 1..idx : FailingDone(tool_calls[i])

\* The dispatch of a failing "done" call: it answers {"Err": ...}, runs the
\* test commands in order up to the first failing one and no later one, and
\* leaves the signal as it was.
FailingDoneDispatch ==
    idx' = idx + 1 /\ FailingDone(tool_calls[idx']) =>
        /\ IsErr(ret'.v.value)
        /\ new_history'[idx' + 1].content = JsonText(ret'.v.value)
        /\ log' = log \o <<[ev |-> "handler", name |-> "done"]>>
                      \o TestEvents(tool_calls[idx'].function.arguments.val.test_commands)
        /\ RunFails(log'[Len(log')])
        /\ \A j \in (Len(log) + 2)..(Len(log') - 1) : ~RunFails(log'[j])
        /\ halt' = halt

\* C19 (as claimed): ... so after a step with a failing "done" call the
\* Driver performs another step.
C19_Claim ==
    [][/\ FailingDoneDispatch
       /\ pc = "check" /\ DoneFailed => pc' = "loop"]_vars

\* C19: "done" populates the signal only if every test command succeeded; a
\* failing "done" call answers {"Err": ...}, runs no test command after the
\* first failing one and leaves the signal as it was.  After a step that
\* returned Ok the Driver performs another step unless another "done" call of
\* that step succeeded.
C19_FailingDoneKeepsSignal ==
    [][/\ FailingDoneDispatch
       /\ halt'[MainSlot] # halt[MainSlot] =>
              /\ idx' = idx + 1
              /\ tool_calls[idx'].function.name = "done"
              /\ ~FailingDone(tool_calls[idx'])
              /\ ret'.v.value = [Ok |-> Null]
       /\ pc = "check" /\ DoneFailed => (pc' = "loop" <=> ~DoneSucceeded)]_vars

\* A "done" call whose first test command fails and whose second would pass
\* has been answered, and the Driver is about to go on.
C19_Witness ==
    /\ pc = "check"
    /\ DoneFailed
    /\ ~halt[MainSlot].some
    /\ \E i \in 1..idx :
           /\ FailingDone(tool_calls[i])
           /\ Len(tool_calls[i].function.arguments.val.test_commands) = 2
           /\ new_history[i + 1].content = JsonText([Err |-> "RunOutput"])

\* C20: the Driver loop ends normally only when the signal is populated and
\* the last step returned Ok (the summary is then reported); it ends with an
\* error only when a step returned an error, and then the summary is never
\* reported, even if the signal was populated during that step; otherwise it
\* keeps stepping, however many steps it has taken (the model stops sending
\* only at its memory bound).
C20_LoopEnds ==
    /\ pc # "exit" => ~result.some /\ ~summary.some
    /\ pc = "exit" =>
           /\ result.some
           /\ result.v.ok =>
                  /\ halt[MainSlot].some
                  /\ summary = Some(halt[MainSlot].v.tldr)
                  /\ idx = Len(tool_calls)
                  /\ history = Prior \o new_history
           /\ ~result.v.ok =>
                  /\ ~summary.some
                  /\ history = Prior
                  /\ result.v.e \in {"transport error", "No choices in response",
                                     "No tool calls in response", "expected value"}
           /\ ~ENABLED Next
    /\ pc = "check" =>
           /\ ENABLED Break <=> halt[MainSlot].some
           /\ ENABLED Continue <=> ~halt[MainSlot].some
    /\ pc = "loop" => (ENABLED SendRequest <=> Len(history) < MaxHistory)

\* In its second step the signal was populated and the step then returned an
\* error: main has returned the error and reported no summary.
C20_Witness ==
    /\ pc = "exit"
    /\ nreq >= 2
    /\ ~result.v.ok
    /\ halt[MainSlot].some
    /\ ~summary.some

\* The positions of the tool messages that follow position j of h with only
\* tool messages in between: the tool messages of the batch opened at j.
ToolsAfter(h, j) ==
    {k \in (j + 1)..Len(h) : \A m \in (j + 1)..k : h[m].role = "tool"}

\* C21: every tool message of Working Memory belongs to a committed batch: it
\* follows, with only tool messages of the batch in between, an assistant
\* message whose tool_calls (copied unchanged from the response) contain a
\* call with its tool_call_id, and the batch has as many tool messages as
\* that tool_calls list has calls.
C21_ToolMessagesInBatches ==
    /\ \A i \in 1..Len(history) :
           history[i].role = "tool" =>
               \E j \in 1..(i - 1) :
                   /\ history[j].role = "assistant"
                   /\ i \in ToolsAfter(history, j)
                   /\ history[j].tool_calls.some
                   /\ \E c \in 1..Len(history[j].tool_calls.v) :
                          history[j].tool_calls.v[c].id = history[i].tool_call_id
    /\ \A j \in 1..Len(history) :
           history[j].role = "assistant" =>
               /\ history[j].tool_calls.some
               /\ Cardinality(ToolsAfter(history, j)) = Len(history[j].tool_calls.v)
    /\ pc = "check" =>
           history[Len(Prior) + 1].tool_calls = response.v.choices[1].message.tool_calls

\* Working Memory holds two committed batches, one of them with two tool
\* messages whose ids fall.
C21_Witness ==
    /\ pc = "check"
    /\ NumAssistant(history) = 2
    /\ \E i \in 2..Len(history) :
           /\ history[i].role = "tool"
           /\ history[i - 1].role = "tool"
           /\ history[i].tool_call_id < history[i - 1].tool_call_id

====
